---- MODULE Spec2Model ----
(***************************************************************************)
(* Model of the TMC2209 UART driver (src/src/packet.rs, src/src/tmc2209.rs) *)
(* as a state machine: the frame builder and checksum as operators, the    *)
(* register access engine and the two workflows as actions over a          *)
(* byte-oriented transport whose answers are chosen nondeterministically.  *)
(***************************************************************************)
EXTENDS Integers, Sequences, FiniteSets, TLC

VARIABLES
    slave_address,  \* Tmc2209FullUartDiagnosticsAndControl.slave_address (u8)
    pc,             \* "idle" | "send" | "recv" | "done"
    op,             \* the public/low-level operation in progress
    params,         \* the arguments the operation was called with
    stage,          \* init_uart: index of the register transaction in progress
    txn,            \* the register transaction in progress (packet, sent, resp)
    locals,         \* init_uart locals ifcnt_before / gconf
    result,         \* what the operation returned
    line,           \* transport: bytes the device has put on the line, not yet read
    delivered,      \* transport: bytes it handed to the current read_register
    accepted,       \* transport: bytes it accepted during the current operation
    tx_attempts,    \* transport: serial.write calls during the current operation
    rx_attempts,    \* transport: serial.read calls during the current operation
    wb,             \* would-block answers given during the current operation
    last_answer,    \* transport: its last answer
    offered,        \* transport: the byte the last serial.write call handed it
    outcomes,       \* what the register transactions of the operation returned
    fn,             \* pure-function harness: the function applied
    args,           \* pure-function harness: its input
    ret             \* pure-function harness: its output

vars == <<slave_address, pc, op, params, stage, txn, locals, result, line, delivered,
          accepted, tx_attempts, rx_attempts, wb, last_answer, offered, outcomes,
          fn, args, ret>>

driverVars == <<slave_address, pc, op, params, stage, txn, locals, result, line, delivered,
                accepted, tx_attempts, rx_attempts, wb, last_answer, offered,
                outcomes>>

pureVars == <<fn, args, ret>>

----------------------------------------------------------------------------
(* Machine arithmetic.  u8 values are naturals below 256.  A u32 is kept   *)
(* as two 16-bit halves, [hi, lo], so that bit 31 is representable.        *)

U8 == 0..255

Pow2(k) == 2^k

RECURSIVE BitAnd(_, _)
BitAnd(a, b) ==
    IF a = 0 \/ b = 0 THEN 0
    ELSE (a % 2) * (b % 2) + 2 * BitAnd(a \div 2, b \div 2)

BitOr(a, b) == a + b - BitAnd(a, b)

BitXor(a, b) == a + b - 2 * BitAnd(a, b)

Shr(a, k) == a \div Pow2(k)

U32(hi, lo) == [hi |-> hi, lo |-> lo]

U32FromU8(b) == U32(0, b)

U32And(a, b) == U32(BitAnd(a.hi, b.hi), BitAnd(a.lo, b.lo))

U32Or(a, b) == U32(BitOr(a.hi, b.hi), BitOr(a.lo, b.lo))

\* a >> k on u32, 0 <= k < 32
U32Shr(a, k) ==
    IF k >= 16 THEN U32(0, a.hi \div Pow2(k - 16))
    ELSE U32(a.hi \div Pow2(k),
             (a.lo \div Pow2(k)) + (a.hi % Pow2(k)) * Pow2(16 - k))

\* a << k on u32 (bits shifted past bit 31 are lost), 0 <= k < 32
U32Shl(a, k) ==
    IF k >= 16 THEN U32((a.lo * Pow2(k - 16)) % 65536, 0)
    ELSE U32((a.hi * Pow2(k) + (a.lo \div Pow2(16 - k))) % 65536,
             (a.lo * Pow2(k)) % 65536)

\* `as u8`: truncation to the low 8 bits
AsU8(a) == a.lo % 256

----------------------------------------------------------------------------
(* packet.rs *)

CrcPoly == 140

\* crc_bit_loop without `current >>= 1`: every iteration mixes in bit 0
RECURSIVE crc_bit_loop_noshift(_, _, _)
crc_bit_loop_noshift(crc, current, k) ==
    IF k = 0 THEN crc
    ELSE IF BitAnd(BitXor(crc, current), 1) # 0
         THEN crc_bit_loop_noshift(BitXor(Shr(crc, 1), CrcPoly), current, k - 1)
         ELSE crc_bit_loop_noshift(Shr(crc, 1), current, k - 1)

\* the inner `for _ in 0..8` loop of calc_crc8, k iterations left
RECURSIVE crc_bit_loop(_, _, _)
crc_bit_loop(crc, current, k) ==
    IF k = 0 THEN crc
    ELSE LET mix == BitAnd(BitXor(crc, current), 1)
             shifted == Shr(crc, 1)
         IN IF mix # 0
            THEN crc_bit_loop(BitXor(shifted, CrcPoly), Shr(current, 1), k - 1)
            ELSE crc_bit_loop(shifted, Shr(current, 1), k - 1)

\* the outer `for &b in bytes` loop of calc_crc8
RECURSIVE crc_byte_loop(_, _)
crc_byte_loop(crc, bytes) ==
    IF bytes = <<>> THEN crc
    ELSE crc_byte_loop(crc_bit_loop(crc, Head(bytes), 8), Tail(bytes))

calc_crc8(bytes) == crc_byte_loop(0, bytes)

\* build_write_packet without the `& 0x7F` on the register
build_write_packet_unmasked(slave, reg_addr, value) ==
    LET head == <<BitOr(5 * 16, BitAnd(slave, 15)), reg_addr>>
                \o <<value.lo % 256, value.lo \div 256, value.hi % 256, value.hi \div 256>>
    IN head \o <<calc_crc8(head), 0>>

build_write_packet(slave, reg_addr, value) ==
    LET adr_byte == BitOr(5 * 16, BitAnd(slave, 15))
        reg_byte == BitAnd(reg_addr, 127)
        d0 == AsU8(U32And(value, U32(0, 255)))
        d1 == AsU8(U32And(U32Shr(value, 8), U32(0, 255)))
        d2 == AsU8(U32And(U32Shr(value, 16), U32(0, 255)))
        d3 == AsU8(U32And(U32Shr(value, 24), U32(0, 255)))
        zeroed == <<0, 0, 0, 0, 0, 0, 0, 0>>
        filled == [zeroed EXCEPT ![1] = adr_byte, ![2] = reg_byte, ![3] = d0,
                                 ![4] = d1, ![5] = d2, ![6] = d3]
    IN [filled EXCEPT ![7] = calc_crc8(SubSeq(filled, 1, 6))]

\* build_read_packet without the `& 0x0F` on the slave address
build_read_packet_unmasked(slave, reg_addr) ==
    LET head == <<BitOr(5 * 16, slave), BitOr(BitAnd(reg_addr, 127), 128)>>
    IN head \o <<calc_crc8(head), 0>>

build_read_packet(slave, reg_addr) ==
    LET adr_byte == BitOr(5 * 16, BitAnd(slave, 15))
        reg_byte == BitOr(BitAnd(reg_addr, 127), 128)
        zeroed == <<0, 0, 0, 0>>
        filled == [zeroed EXCEPT ![1] = adr_byte, ![2] = reg_byte]
    IN [filled EXCEPT ![3] = calc_crc8(SubSeq(filled, 1, 2))]

----------------------------------------------------------------------------
(* registers.rs, errors.rs *)

REG_GCONF == 0

REG_GSTAT == 1

REG_IFCNT == 2

REG_IHOLD_IRUN == 16

GCONF_PDN_DISABLE == U32Shl(U32(0, 1), 6)

TmcError == {"PinError", "SerialError", "CrcError", "VerificationError"}

Ok(v) == [tag |-> "Ok", val |-> v]

Err(e) == [tag |-> "Err", err |-> e]

Unit == [unit |-> TRUE]

NoResult == [tag |-> "none"]

----------------------------------------------------------------------------
(* Bounds and input samples *)

\* would-block answers the transport gives during one operation
MaxWouldBlock == 2

\* longest byte sequence handed to calc_crc8 from the sample alphabet
MaxLen == 3

SlaveSamples == {0, 1, 19}

\* registers passed to read_register / write_register when entered directly
RegSamples == {REG_GCONF, REG_GSTAT, REG_IFCNT, 129}

ValueSamples == {U32(0, 0), U32(8, 2064), U32(65535, 65535)}

IrunSamples == {0, 16, 31, 32, 255}

IholdSamples == {0, 8, 31, 32}

IholdDelaySamples == {0, 8, 15, 16}

\* bits of a value byte the line may flip
FlipBits == {0, 7}

\* inputs of the pure functions of packet.rs
ByteSamples == {0, 1, 2, 80, 127, 128, 140, 255}

SmallBytes == {0, 1, 128, 255}

SlaveByteSamples == {0, 3, 15, 16, 243, 255}

RegByteSamples == {0, 16, 65, 127, 128, 193, 255}

PacketValueSamples ==
    {U32(0, 0), U32(8, 2064), U32(65535, 65535), U32(4660, 22136), U32(32768, 1)}

CrcInputs ==
    {<<>>}
    \cup [1..1 -> U8]
    \cup { <<a, b>> : a \in U8, b \in ByteSamples }
    \cup UNION { [1..n -> SmallBytes] : n \in 3..MaxLen }

SlaveRegInputs ==
    (U8 \X RegByteSamples) \cup (SlaveByteSamples \X U8)

\* GCONF values: every low byte, the neighbours of bit 6 in the upper
\* bits, bit 31
GconfSamples ==
    { U32(h, l) : h \in {0, 1, 32768, 65535},
                  l \in (0..255) \cup {320, 32832, 65471, 65535} }

PureInputs ==
    { [kind |-> "bytes", bytes |-> b] : b \in CrcInputs }
    \cup { [kind |-> "gconf", gconf |-> g] : g \in GconfSamples }
    \cup { [kind |-> "read", slave |-> sr[1], reg |-> sr[2]] : sr \in SlaveRegInputs }
    \cup { [kind |-> "write", slave |-> sr[1], reg |-> sr[2], value |-> v] :
             sr \in SlaveRegInputs, v \in {U32(8, 2064), U32(32768, 1)} }
    \cup { [kind |-> "write", slave |-> sr[1], reg |-> sr[2], value |-> v] :
             sr \in SlaveByteSamples \X RegByteSamples, v \in PacketValueSamples }

----------------------------------------------------------------------------
(* The device side of the line: the 7-byte frames it may answer a read    *)
(* request for (slave, reg) with.                                         *)

LeBytes(v) == <<v.lo % 256, v.lo \div 256, v.hi % 256, v.hi \div 256>>

WithCrc(head) == head \o <<calc_crc8(head)>>

FlipBit(b, k) == IF (b \div Pow2(k)) % 2 = 1 THEN b - Pow2(k) ELSE b + Pow2(k)

\* a well-formed answer: echoed address nibble and register, value, checksum
ValidResponse(slave, reg, v, sync, dir) ==
    WithCrc(<<(sync * 16) + (slave % 16), (dir * 128) + (reg % 128)>> \o LeBytes(v))

ResponseFrames(slave, reg) ==
    LET good(v) == ValidResponse(slave, reg, v, 5, 0)
    IN UNION { { good(v),
                 ValidResponse(slave, reg, v, 0, 1),
                 ValidResponse(slave + 1, reg, v, 5, 0),
                 ValidResponse(slave, reg + 1, v, 5, 0),
                 [good(v) EXCEPT ![7] = FlipBit(@, 0)],
                 [ValidResponse(slave, reg + 1, v, 5, 0) EXCEPT ![7] = FlipBit(@, 0)] }
               \cup { [good(v) EXCEPT ![i] = FlipBit(@, k)] : i \in 3..6, k \in FlipBits }
             : v \in ValueSamples }

----------------------------------------------------------------------------
(* tmc2209.rs: Tmc2209FullUartDiagnosticsAndControl *)

NoTxn == [kind |-> "none"]

NoParams == [none |-> TRUE]

NoLocals == [ifcnt_before |-> U32(0, 0), gconf |-> U32(0, 0)]

\* read_register, lines 352-371: validation of the response buffer and decoding
read_register_validate(resp, slave, reg) ==
    IF BitAnd(resp[1], 15) # BitAnd(slave, 15) THEN Err("VerificationError")
    ELSE IF BitAnd(resp[2], 127) # BitAnd(reg, 127) THEN Err("VerificationError")
    ELSE IF calc_crc8(SubSeq(resp, 1, 6)) # resp[7] THEN Err("CrcError")
    ELSE LET d0 == U32FromU8(resp[3])
             d1 == U32FromU8(resp[4])
             d2 == U32FromU8(resp[5])
             d3 == U32FromU8(resp[6])
         IN Ok(U32Or(U32Or(U32Or(d0, U32Shl(d1, 8)), U32Shl(d2, 16)), U32Shl(d3, 24)))

\* read_register, lines 347-349: what one successful serial.read leaves in
\* resp[i].  `val` is rebound to the Ok payload of Read::read, the number of
\* bytes read, and that is what is stored; the byte itself went into the
\* temporary array `&mut [val]`, which is dropped.
read_register_store(count, byte) == count % 256

\* the range check with its bounds one too high
set_current_in_range_off_by_one(irun, ihold, ihold_delay) ==
    ~(irun > 32 \/ ihold > 32 \/ ihold_delay > 16)

\* set_current, lines 317-319
set_current_in_range(irun, ihold, ihold_delay) ==
    ~(irun > 31 \/ ihold > 31 \/ ihold_delay > 15)

\* the packing with the run and hold currents in each other's field
set_current_pack_swapped(irun, ihold, ihold_delay) ==
    LET v0 == U32(0, 0)
        v1 == U32Or(v0, U32And(U32FromU8(irun), U32(0, 31)))
        v2 == U32Or(v1, U32Shl(U32And(U32FromU8(ihold), U32(0, 31)), 8))
    IN U32Or(v2, U32Shl(U32And(U32FromU8(ihold_delay), U32(0, 15)), 16))

\* set_current, lines 320-323
set_current_pack(irun, ihold, ihold_delay) ==
    LET v0 == U32(0, 0)
        v1 == U32Or(v0, U32And(U32FromU8(ihold), U32(0, 31)))
        v2 == U32Or(v1, U32Shl(U32And(U32FromU8(irun), U32(0, 31)), 8))
    IN U32Or(v2, U32Shl(U32And(U32FromU8(ihold_delay), U32(0, 15)), 16))

\* a GCONF update that flips pdn_disable instead of setting it
init_uart_new_gconf_toggled(gconf) ==
    [hi |-> gconf.hi, lo |-> BitXor(gconf.lo, 64)]

\* init_uart, line 305: gconf | GCONF_PDN_DISABLE
init_uart_new_gconf(gconf) == U32Or(gconf, GCONF_PDN_DISABLE)

\* the value init_uart returns when IFCNT did not move, line 310
init_uart_liveness_error == "SerialError"

\* the value a hard transport fault is mapped to, lines 332, 341, 348
transport_fault_error == "SerialError"

\* the `&[b]` of serial.write(&[b]) in the loops at lines 331-333 and
\* 340-342: the packet byte the loop stands at, and its position
Offer(t) == [index |-> t.sent + 1, byte |-> t.packet[t.sent + 1]]

NoOffer == [index |-> 0, byte |-> 0]

\* entering write_register (line 330) / read_register (line 339)
BeginWrite(reg, value) ==
    [kind |-> "write", reg |-> reg, value |-> value,
     packet |-> build_write_packet(slave_address, reg, value),
     sent |-> 0, resp |-> <<>>]

BeginRead(reg) ==
    [kind |-> "read", reg |-> reg, value |-> U32(0, 0),
     packet |-> build_read_packet(slave_address, reg),
     sent |-> 0, resp |-> <<>>]

\* the operation is over: `r` goes to the caller
Finish(r, t, dl) ==
    /\ pc' = "done"
    /\ result' = r
    /\ txn' = t
    /\ delivered' = dl
    /\ UNCHANGED <<stage, locals>>

\* the operation goes on with the register transaction `t`
Continue(st, t, loc) ==
    /\ pc' = "send"
    /\ stage' = st
    /\ txn' = t
    /\ locals' = loc
    /\ delivered' = <<>>
    /\ UNCHANGED result

\* an init_uart whose first read is not followed by `?`: a failed read
\* counts as a counter of 0 and the workflow goes on
Return_unchecked(r, t, dl) ==
    /\ outcomes' = Append(outcomes, r)
    /\ CASE op \in {"read_register", "write_register"} -> Finish(r, t, dl)
         [] op = "set_current" ->
               Finish(IF r.tag = "Err" THEN r ELSE Ok(Unit), t, dl)
         [] op = "init_uart" /\ r.tag = "Err" /\ stage # 0 -> Finish(r, t, dl)
         [] op = "init_uart" /\ stage = 0 ->
               Continue(1, BeginRead(REG_GCONF),
                        [locals EXCEPT !.ifcnt_before =
                                          IF r.tag = "Ok" THEN r.val ELSE U32(0, 0)])
         [] op = "init_uart" /\ r.tag = "Ok" /\ stage = 1 ->
               Continue(2, BeginWrite(REG_GCONF, init_uart_new_gconf(r.val)),
                        [locals EXCEPT !.gconf = r.val])
         [] op = "init_uart" /\ r.tag = "Ok" /\ stage = 2 ->
               Continue(3, BeginRead(REG_IFCNT), locals)
         [] op = "init_uart" /\ r.tag = "Ok" /\ stage = 3 ->
               Finish(IF r.val = locals.ifcnt_before
                      THEN Err(init_uart_liveness_error) ELSE Ok(Unit), t, dl)

\* The register transaction `t` returned `r`: the rest of the caller up to
\* its next transport call or its return.
Return(r, t, dl) ==
    /\ outcomes' = Append(outcomes, r)
    /\ CASE op \in {"read_register", "write_register"} -> Finish(r, t, dl)
         [] op = "set_current" ->                       \* lines 324-325
               Finish(IF r.tag = "Err" THEN r ELSE Ok(Unit), t, dl)
         [] op = "init_uart" /\ r.tag = "Err" -> Finish(r, t, dl)   \* the four `?`
         [] op = "init_uart" /\ r.tag = "Ok" /\ stage = 0 ->  \* lines 301-304
               Continue(1, BeginRead(REG_GCONF), [locals EXCEPT !.ifcnt_before = r.val])
         [] op = "init_uart" /\ r.tag = "Ok" /\ stage = 1 ->  \* lines 304-306
               Continue(2, BeginWrite(REG_GCONF, init_uart_new_gconf(r.val)),
                        [locals EXCEPT !.gconf = r.val])
         [] op = "init_uart" /\ r.tag = "Ok" /\ stage = 2 ->  \* lines 306-308
               Continue(3, BeginRead(REG_IFCNT), locals)
         [] op = "init_uart" /\ r.tag = "Ok" /\ stage = 3 ->  \* lines 308-312
               Finish(IF r.val = locals.ifcnt_before
                      THEN Err(init_uart_liveness_error) ELSE Ok(Unit), t, dl)

\* a public or low-level operation is entered: the transport's log starts over
Enter(name, ps) ==
    /\ pc = "idle"
    /\ op' = name
    /\ params' = ps
    /\ accepted' = <<>>
    /\ tx_attempts' = 0
    /\ rx_attempts' = 0
    /\ wb' = 0
    /\ last_answer' = "none"
    /\ offered' = NoOffer
    /\ outcomes' = <<>>
    /\ UNCHANGED <<slave_address, line, pureVars>>

init_uart ==
    /\ Enter("init_uart", NoParams)
    /\ Continue(0, BeginRead(REG_IFCNT), NoLocals)

set_current ==
    \E irun \in IrunSamples, ihold \in IholdSamples, ihold_delay \in IholdDelaySamples :
        /\ Enter("set_current", [irun |-> irun, ihold |-> ihold, ihold_delay |-> ihold_delay])
        /\ IF ~set_current_in_range(irun, ihold, ihold_delay)
           THEN Finish(Err("VerificationError"), NoTxn, <<>>)
           ELSE Continue(0, BeginWrite(REG_IHOLD_IRUN,
                                       set_current_pack(irun, ihold, ihold_delay)),
                         locals)

write_register ==
    \E reg \in RegSamples, value \in ValueSamples :
        /\ Enter("write_register", [reg |-> reg, value |-> value])
        /\ Continue(0, BeginWrite(reg, value), locals)

read_register ==
    \E reg \in RegSamples :
        /\ Enter("read_register", [reg |-> reg])
        /\ Continue(0, BeginRead(reg), locals)

\* a transmit loop without nb::block!, where WouldBlock reaches map_err
TxWouldBlock_surfaced ==
    /\ pc = "send"
    /\ wb < MaxWouldBlock
    /\ wb' = wb + 1
    /\ tx_attempts' = tx_attempts + 1
    /\ last_answer' = "would_block"
    /\ offered' = Offer(txn)
    /\ outcomes' = Append(outcomes, Err(transport_fault_error))
    /\ Finish(Err(transport_fault_error), txn, delivered)
    /\ UNCHANGED <<slave_address, op, params, line, accepted, rx_attempts, pureVars>>

\* a transmit loop that takes WouldBlock for an answer and moves on
TxWouldBlock_moves_on ==
    /\ pc = "send"
    /\ wb < MaxWouldBlock
    /\ txn.sent + 1 < Len(txn.packet)
    /\ wb' = wb + 1
    /\ tx_attempts' = tx_attempts + 1
    /\ last_answer' = "would_block"
    /\ offered' = Offer(txn)
    /\ txn' = [txn EXCEPT !.sent = @ + 1]
    /\ UNCHANGED <<slave_address, pc, op, params, stage, locals, result, line, outcomes,
                   delivered, accepted, rx_attempts, pureVars>>

\* serial.write(&[b]) answers WouldBlock: nb::block! calls it again
TxWouldBlock ==
    /\ pc = "send"
    /\ wb < MaxWouldBlock
    /\ wb' = wb + 1
    /\ tx_attempts' = tx_attempts + 1
    /\ last_answer' = "would_block"
    /\ offered' = Offer(txn)
    /\ UNCHANGED <<slave_address, pc, op, params, stage, txn, locals, result, line, outcomes,
                   delivered, accepted, rx_attempts, pureVars>>

\* serial.write(&[b]) answers with a hard error
TxFault ==
    /\ pc = "send"
    /\ tx_attempts' = tx_attempts + 1
    /\ last_answer' = "fault"
    /\ offered' = Offer(txn)
    /\ outcomes' = Append(outcomes, Err(transport_fault_error))
    /\ Finish(Err(transport_fault_error), txn, delivered)
    /\ UNCHANGED <<slave_address, op, params, line, accepted, rx_attempts, wb, pureVars>>

\* serial.write(&[b]) answers Ok: the byte is on the wire
TxAccept ==
    /\ pc = "send"
    /\ tx_attempts' = tx_attempts + 1
    /\ last_answer' = "ok"
    /\ offered' = Offer(txn)
    /\ accepted' = Append(accepted, txn.packet[txn.sent + 1])
    /\ LET last == txn.sent + 1 = Len(txn.packet)
       IN /\ IF ~last
             THEN /\ txn' = [txn EXCEPT !.sent = @ + 1]
                  /\ UNCHANGED <<pc, stage, locals, result, delivered, outcomes>>
             ELSE IF txn.kind = "write"
             THEN Return(Ok(Unit), [txn EXCEPT !.sent = @ + 1], delivered)
             ELSE /\ txn' = [txn EXCEPT !.sent = @ + 1]
                  /\ pc' = "recv"
                  /\ UNCHANGED <<stage, locals, result, delivered, outcomes>>
          \* the device answers a complete read request
          /\ \E f \in (IF last /\ txn.kind = "read"
                       THEN ResponseFrames(slave_address, txn.reg) ELSE {line}) :
                line' = f
    /\ UNCHANGED <<slave_address, op, params, rx_attempts, wb, pureVars>>

\* serial.read(..) answers WouldBlock: nb::block! calls it again
RxWouldBlock ==
    /\ pc = "recv"
    /\ wb < MaxWouldBlock
    /\ wb' = wb + 1
    /\ rx_attempts' = rx_attempts + 1
    /\ last_answer' = "would_block"
    /\ UNCHANGED <<slave_address, pc, op, params, stage, txn, locals, result, line, outcomes,
                   delivered, accepted, tx_attempts, offered, pureVars>>

\* a receive loop that calls serial.read again after a hard error
RxFault_retried ==
    /\ pc = "recv"
    /\ wb < MaxWouldBlock
    /\ wb' = wb + 1
    /\ rx_attempts' = rx_attempts + 1
    /\ last_answer' = "fault"
    /\ UNCHANGED <<slave_address, pc, op, params, stage, txn, locals, result, line, outcomes,
                   delivered, accepted, tx_attempts, offered, pureVars>>

\* serial.read(..) answers with a hard error
RxFault ==
    /\ pc = "recv"
    /\ rx_attempts' = rx_attempts + 1
    /\ last_answer' = "fault"
    /\ outcomes' = Append(outcomes, Err(transport_fault_error))
    /\ Finish(Err(transport_fault_error), txn, delivered)
    /\ UNCHANGED <<slave_address, op, params, line, accepted, tx_attempts, wb, offered,
                   pureVars>>

\* a receive loop that runs once more, `for i in 0..8`
Received_eight(stored, dl) ==
    LET resp == Append(txn.resp, stored)
        t == [txn EXCEPT !.resp = resp]
    IN IF Len(resp) < 8
       THEN /\ txn' = t
            /\ delivered' = dl
            /\ UNCHANGED <<pc, stage, locals, result, outcomes>>
       ELSE Return(read_register_validate(resp, slave_address, txn.reg), t, dl)

\* resp[i] = val as u8 (line 349), and after the seventh byte the rest of
\* read_register, lines 352-371
Received(stored, dl) ==
    LET resp == Append(txn.resp, stored)
        t == [txn EXCEPT !.resp = resp]
    IN IF Len(resp) < 7
       THEN /\ txn' = t
            /\ delivered' = dl
            /\ UNCHANGED <<pc, stage, locals, result, outcomes>>
       ELSE Return(read_register_validate(resp, slave_address, txn.reg), t, dl)

\* serial.read(..) answers Ok(1): one byte of the line went into the buffer
RxOk ==
    /\ pc = "recv"
    /\ line # <<>>
    /\ rx_attempts' = rx_attempts + 1
    /\ last_answer' = "ok"
    /\ line' = Tail(line)
    /\ Received(read_register_store(1, Head(line)), Append(delivered, Head(line)))
    /\ UNCHANGED <<slave_address, op, params, accepted, tx_attempts, wb, offered, pureVars>>

\* serial.read(..) answers Ok(0): end of stream, nothing went into the buffer
RxEof ==
    /\ pc = "recv"
    /\ rx_attempts' = rx_attempts + 1
    /\ last_answer' = "eof"
    /\ line' = <<>>
    /\ Received(read_register_store(0, 0), delivered)
    /\ UNCHANGED <<slave_address, op, params, accepted, tx_attempts, wb, offered, pureVars>>

\* the caller takes the result; the driver is ready for the next operation
Idle(s) ==
    /\ slave_address = s
    /\ pc = "idle"
    /\ op = "none"
    /\ params = NoParams
    /\ stage = 0
    /\ txn = NoTxn
    /\ locals = NoLocals
    /\ result = NoResult
    /\ line = <<>>
    /\ delivered = <<>>
    /\ accepted = <<>>
    /\ tx_attempts = 0
    /\ rx_attempts = 0
    /\ wb = 0
    /\ last_answer = "none"
    /\ offered = NoOffer
    /\ outcomes = <<>>

Done ==
    /\ pc = "done"
    /\ pc' = "idle"
    /\ op' = "none"
    /\ params' = NoParams
    /\ stage' = 0
    /\ txn' = NoTxn
    /\ locals' = NoLocals
    /\ result' = NoResult
    /\ line' = <<>>
    /\ delivered' = <<>>
    /\ accepted' = <<>>
    /\ tx_attempts' = 0
    /\ rx_attempts' = 0
    /\ wb' = 0
    /\ last_answer' = "none"
    /\ offered' = NoOffer
    /\ outcomes' = <<>>
    /\ UNCHANGED <<slave_address, pureVars>>

PureIdle ==
    /\ fn = "none"
    /\ args = [kind |-> "none"]
    /\ ret = <<>>

\* Tmc2209FullUartDiagnosticsAndControl::new
Init ==
    /\ \E s \in SlaveSamples : Idle(s)
    /\ PureIdle

Next ==
    \/ init_uart
    \/ set_current
    \/ write_register
    \/ read_register
    \/ TxWouldBlock
    \/ TxFault
    \/ TxAccept
    \/ RxWouldBlock
    \/ RxFault
    \/ RxOk
    \/ RxEof
    \/ Done

Spec == Init /\ [][Next]_vars

\* the driver on a transport that never answers with a hard error and that,
\* asked again and again to take a byte, eventually takes it
FaultFreeNext ==
    \/ init_uart
    \/ set_current
    \/ write_register
    \/ read_register
    \/ TxWouldBlock
    \/ TxAccept
    \/ RxWouldBlock
    \/ RxOk
    \/ RxEof
    \/ Done

\* serial.write takes a byte of a write frame
WriteAccept == txn.kind = "write" /\ TxAccept

FairSpec == Init /\ [][FaultFreeNext]_vars /\ WF_vars(WriteAccept)

----------------------------------------------------------------------------
(* The pure functions of packet.rs, and the GCONF update of init_uart,       *)
(* applied to inputs drawn at Init                                          *)

PacketInit ==
    /\ Idle(0)
    /\ fn = "none"
    /\ ret = <<>>
    /\ args \in PureInputs

Apply_calc_crc8 ==
    /\ fn = "none"
    /\ args.kind = "bytes"
    /\ fn' = "calc_crc8"
    /\ ret' = calc_crc8(args.bytes)
    /\ UNCHANGED <<args, driverVars>>

Apply_build_write_packet ==
    /\ fn = "none"
    /\ args.kind = "write"
    /\ fn' = "build_write_packet"
    /\ ret' = build_write_packet(args.slave, args.reg, args.value)
    /\ UNCHANGED <<args, driverVars>>

Apply_build_read_packet ==
    /\ fn = "none"
    /\ args.kind = "read"
    /\ fn' = "build_read_packet"
    /\ ret' = build_read_packet(args.slave, args.reg)
    /\ UNCHANGED <<args, driverVars>>

\* line 305 of init_uart applied to a GCONF value
Apply_init_uart_new_gconf ==
    /\ fn = "none"
    /\ args.kind = "gconf"
    /\ fn' = "init_uart_new_gconf"
    /\ ret' = init_uart_new_gconf(args.gconf)
    /\ UNCHANGED <<args, driverVars>>

PacketNext ==
    \/ Apply_init_uart_new_gconf
    \/ Apply_calc_crc8
    \/ Apply_build_write_packet
    \/ Apply_build_read_packet

PacketSpec == PacketInit /\ [][PacketNext]_vars


----------------------------------------------------------------------------
(* Reference algorithms the checksum is compared with *)

RECURSIVE RevBits(_, _)
RevBits(b, k) ==
    IF k = 0 THEN 0 ELSE (b % 2) * Pow2(k - 1) + RevBits(b \div 2, k - 1)

\* the 8-bit bit-reversal of b
Rev8(b) == RevBits(b, 8)

\* section 4.1: XOR the whole byte into the accumulator, then shift 8 times
RECURSIVE RefShift(_, _)
RefShift(acc, k) ==
    IF k = 0 THEN acc
    ELSE IF acc % 2 = 1
         THEN RefShift(BitXor(acc \div 2, 140), k - 1)
         ELSE RefShift(acc \div 2, k - 1)

RECURSIVE RefCrc8From(_, _)
RefCrc8From(acc, bytes) ==
    IF bytes = <<>> THEN acc
    ELSE RefCrc8From(RefShift(BitXor(acc, Head(bytes)), 8), Tail(bytes))

RefCrc8(bytes) == RefCrc8From(0, bytes)

\* MSB-first CRC-8, polynomial x^8+x^2+x+1 (0x07), seed 0, no final XOR
RECURSIVE MsbShift(_, _)
MsbShift(acc, k) ==
    IF k = 0 THEN acc
    ELSE IF acc >= 128
         THEN MsbShift(BitXor((acc * 2) % 256, 7), k - 1)
         ELSE MsbShift((acc * 2) % 256, k - 1)

RECURSIVE MsbCrc8From(_, _)
MsbCrc8From(acc, bytes) ==
    IF bytes = <<>> THEN acc
    ELSE MsbCrc8From(MsbShift(BitXor(acc, Head(bytes)), 8), Tail(bytes))

\* the reflected CRC-8 of polynomial 0x07
ReflectedCrc07(bytes) ==
    Rev8(MsbCrc8From(0, [i \in 1..Len(bytes) |-> Rev8(bytes[i])]))

----------------------------------------------------------------------------
(* Frame builder and checksum claims (PacketSpec) *)

\* C7: build_write_packet returns 8 bytes: 0x50 | (slave & 0x0F), register &
\* 0x7F, the value least-significant byte first, calc_crc8 of bytes 0..5, 0;
\* out-of-width slave and register are masked; slave 0, register 0x10, value
\* 0x00080810 gives [0x50, 0x10, 0x10, 0x08, 0x08, 0x00, crc, 0].
C7_WritePacketLayout ==
    fn = "build_write_packet" =>
        /\ Len(ret) = 8
        /\ ret[1] = 80 + (args.slave % 16)
        /\ ret[2] = args.reg % 128
        /\ ret[2] < 128
        /\ ret[3] = args.value.lo % 256
        /\ ret[4] = args.value.lo \div 256
        /\ ret[5] = args.value.hi % 256
        /\ ret[6] = args.value.hi \div 256
        /\ ret[7] = calc_crc8(<<ret[1], ret[2], ret[3], ret[4], ret[5], ret[6]>>)
        /\ ret[8] = 0
        /\ (args.slave = 0 /\ args.reg = 16 /\ args.value = U32(8, 2064)) =>
               ret = <<80, 16, 16, 8, 8, 0, calc_crc8(<<80, 16, 16, 8, 8, 0>>), 0>>

\* a write frame was built from an out-of-width slave and register and a
\* value with bit 31 set
C7_Witness ==
    /\ fn = "build_write_packet"
    /\ args.slave = 243
    /\ args.reg = 193
    /\ args.value = U32(32768, 1)
    /\ ret[1] = 83
    /\ ret[2] = 65
    /\ ret[6] = 128

\* C8: build_read_packet returns 4 bytes: 0x50 | (slave & 0x0F), (register &
\* 0x7F) | 0x80, calc_crc8 of bytes 0..1, 0; out-of-width inputs are masked;
\* slave 3, register 0x41 gives [0x53, 0xC1, crc, 0].
C8_ReadPacketLayout ==
    fn = "build_read_packet" =>
        /\ Len(ret) = 4
        /\ ret[1] = 80 + (args.slave % 16)
        /\ ret[2] = (args.reg % 128) + 128
        /\ ret[2] >= 128
        /\ ret[3] = calc_crc8(<<ret[1], ret[2]>>)
        /\ ret[4] = 0
        /\ (args.slave = 3 /\ args.reg = 65) =>
               ret = <<83, 193, calc_crc8(<<83, 193>>), 0>>

\* a read request was built from an out-of-width slave and a register whose
\* bit 7 was clear
C8_Witness ==
    /\ fn = "build_read_packet"
    /\ args.slave = 243
    /\ args.reg = 65
    /\ ret[1] = 83
    /\ ret[2] = 193

\* C9 (as claimed): 0x8C is the bit-reversal of 0x07 and calc_crc8 is the
\* reflected CRC-8 of polynomial 0x07: the bit-reversal of the MSB-first
\* CRC-8/0x07 of the bit-reversed input bytes.
C9_ReflectedPoly07 ==
    fn = "calc_crc8" =>
        /\ CrcPoly = Rev8(7)
        /\ ret = ReflectedCrc07(args.bytes)

\* C10: calc_crc8 equals the section 4.1 algorithm (XOR the whole byte into
\* the accumulator, then 8 shift steps mixing in 0x8C) on every input.
C10_MatchesReference ==
    fn = "calc_crc8" => ret = RefCrc8(args.bytes)

\* calc_crc8 was applied to several bytes whose high bits matter
C10_Witness ==
    /\ fn = "calc_crc8"
    /\ Len(args.bytes) = 3
    /\ args.bytes[2] = 128
    /\ ret = RefCrc8(args.bytes)
    /\ ret # 0

----------------------------------------------------------------------------
(* Register access and workflow claims (Spec) *)

\* the 7 bytes r echo the request's slave nibble and 7-bit register
EchoesRequest(r, slave, reg) ==
    /\ r[1] % 16 = slave % 16
    /\ r[2] % 128 = reg % 128

ChecksumOk(r) == r[7] = calc_crc8(SubSeq(r, 1, 6))

\* read_register has returned after the transport delivered all 7 bytes
ReadReturned ==
    /\ pc = "done"
    /\ op = "read_register"
    /\ Len(delivered) = 7

\* C1 (as claimed): when the transport delivers 7 bytes that echo the request
\* and carry a correct checksum, the response buffer holds those bytes and
\* read_register returns Ok of bytes 2..5 read little-endian.
C1_ValidResponseDecoded ==
    (ReadReturned /\ EchoesRequest(delivered, slave_address, params.reg)
                  /\ ChecksumOk(delivered)) =>
        /\ txn.resp = delivered
        /\ result = Ok(U32(delivered[6] * 256 + delivered[5],
                           delivered[4] * 256 + delivered[3]))

\* C2 (as claimed): a delivered response whose echoed slave nibble or register
\* differs from the request yields VerificationError whatever its checksum,
\* and CrcError is returned only when both echoes match and the checksum
\* differs.
C2_ValidationOrder ==
    ReadReturned =>
        /\ ~EchoesRequest(delivered, slave_address, params.reg) =>
               result = Err("VerificationError")
        /\ result = Err("CrcError") =>
               /\ EchoesRequest(delivered, slave_address, params.reg)
               /\ ~ChecksumOk(delivered)

\* r is a valid response to the request but for one flipped bit in one of
\* the value bytes
OneValueBitFlipped(r, slave, reg) ==
    /\ EchoesRequest(r, slave, reg)
    /\ \E i \in 3..6, k \in 0..7 : ChecksumOk([r EXCEPT ![i] = FlipBit(@, k)])

\* C3 (as claimed): a delivered response that is valid but for one flipped
\* bit in a value byte yields CrcError.
C3_BitFlipIsCrcError ==
    (ReadReturned /\ OneValueBitFlipped(delivered, slave_address, params.reg)) =>
        result = Err("CrcError")

\* C4: set_current with irun > 31, ihold > 31 or ihold_delay > 15 returns the
\* parameter-range failure and the transport saw no write and no read attempt.
C4_OutOfRangeNoIo ==
    (op = "set_current" /\ (params.irun > 31 \/ params.ihold > 31
                                             \/ params.ihold_delay > 15)) =>
        /\ pc = "done"
        /\ result = Err("VerificationError")
        /\ tx_attempts = 0
        /\ rx_attempts = 0
        /\ accepted = <<>>

\* set_current was called with a 5-bit field one past its range and returned
C4_Witness ==
    /\ pc = "done"
    /\ op = "set_current"
    /\ params.irun = 32
    /\ params.ihold = 31
    /\ params.ihold_delay = 15
    /\ result = Err("VerificationError")
    /\ tx_attempts = 0

\* init_uart never gets past its first read_register: the response buffer
\* holds byte counts (0 or 1), whose 7-bit register field is never IFCNT
InitUartStopsAtFirstRead ==
    op = "init_uart" => (stage = 0 /\ result # Ok(Unit))

\* the operation failed on a hard transport fault
FailedOnTransportFault ==
    pc = "done" /\ last_answer = "fault"

\* read_register failed its address/register check or its checksum check
FailedOnValidation ==
    /\ pc = "done"
    /\ op = "read_register"
    /\ Len(txn.resp) = 7
    /\ result.tag = "Err"

\* C6 (as claimed): the value init_uart returns for an unchanged interface
\* counter differs from the value returned for a transport fault, for a
\* protocol mismatch and for a checksum mismatch.
C6_LivenessErrorDistinct ==
    (FailedOnTransportFault \/ FailedOnValidation) =>
        result.err # init_uart_liveness_error

----------------------------------------------------------------------------
(* Transport-level claims (Spec) *)

\* s is an initial segment of t
IsPrefix(s, t) ==
    /\ Len(s) <= Len(t)
    /\ \A i \in 1..Len(s) : s[i] = t[i]

\* the 8 bytes of a write of IHOLD_IRUN whose value carries ihold in bits
\* 4..0, irun in bits 12..8, ihold_delay in bits 19..16 and zeros elsewhere:
\* every field lies in a byte of its own
CurrentFrame(slave, irun, ihold, ihold_delay) ==
    LET head == <<80 + (slave % 16), 16, ihold, irun, ihold_delay, 0>>
    IN head \o <<calc_crc8(head), 0>>

\* C11: set_current with irun <= 31, ihold <= 31 and ihold_delay <= 15 makes
\* one write transaction to register 0x10 whose value is
\* ihold + irun * 2^8 + ihold_delay * 2^16; the bytes the transport accepts are
\* at every moment a prefix of, and on success exactly, the frame
\* build_write_packet(slave_address, 0x10, value), in which each input stands
\* in a byte of its own; nothing is read.
C11_SetCurrentPacksFields ==
    (op = "set_current" /\ params.irun <= 31 /\ params.ihold <= 31
                        /\ params.ihold_delay <= 15) =>
        LET frame == CurrentFrame(slave_address, params.irun, params.ihold,
                                  params.ihold_delay)
        IN /\ txn.kind = "write"
           /\ txn.reg = 16
           /\ txn.value = U32(params.ihold_delay, params.irun * 256 + params.ihold)
           /\ frame = build_write_packet(slave_address, 16, txn.value)
           /\ IsPrefix(accepted, frame)
           /\ rx_attempts = 0
           /\ pc \in {"send", "done"}
           /\ (pc = "done" /\ last_answer # "fault") =>
                  (result = Ok(Unit) /\ accepted = frame)
           /\ pc = "send" => Len(accepted) < 8

\* set_current(31, 8, 15) returned success with its frame on the wire
C11_Witness ==
    /\ pc = "done"
    /\ op = "set_current"
    /\ params.irun = 31
    /\ params.ihold = 8
    /\ params.ihold_delay = 15
    /\ result = Ok(Unit)
    /\ accepted[3] = 8
    /\ accepted[4] = 31
    /\ accepted[5] = 15
    /\ Len(accepted) = 8

\* C12: while write_register transmits, every step is one serial.write call;
\* the byte it hands over is the frame byte right after the bytes accepted so
\* far (so byte k+1 is not offered before byte k was accepted, and an accepted
\* byte is not offered again); a would-block answer leaves the accepted bytes
\* and the loop position as they were, so the same byte is offered next; an
\* accept appends exactly that byte; the accepted bytes stay a prefix of
\* build_write_packet(slave_address, reg, value).
C12_WriteStep ==
    (op = "write_register" /\ pc = "send") =>
        LET frame == build_write_packet(slave_address, params.reg, params.value)
            k == Len(accepted)
        IN /\ k < 8
           /\ tx_attempts' = tx_attempts + 1
           /\ last_answer' \in {"ok", "would_block", "fault"}
           /\ offered' = [index |-> k + 1, byte |-> frame[k + 1]]
           /\ last_answer' = "ok" => accepted' = Append(accepted, frame[k + 1])
           /\ last_answer' # "ok" => accepted' = accepted
           /\ last_answer' = "would_block" => (pc' = "send" /\ txn' = txn)
           /\ IsPrefix(accepted', frame)

C12_TransmitInOrder == [][C12_WriteStep]_vars

\* write_register was answered would-block twice, the second time on its
\* fourth byte, with three bytes accepted
C12_Witness ==
    /\ op = "write_register"
    /\ pc = "send"
    /\ last_answer = "would_block"
    /\ wb = 2
    /\ Len(accepted) = 3
    /\ offered.index = 4
    /\ tx_attempts = 5

\* after a hard fault the operation has returned SerialError, and the
\* response buffer was not complete, so lines 352-371 did not run
C13_FaultState ==
    last_answer = "fault" =>
        /\ pc = "done"
        /\ result = Err("SerialError")
        /\ Len(txn.resp) < 7
        /\ txn.sent < Len(txn.packet) \/ rx_attempts > 0

\* the step in which the transport faults is one call, which neither puts a
\* byte on the wire nor stores one; the only step after it hands the result
\* to the caller
C13_FaultStep ==
    /\ last_answer' = "fault" =>
           /\ tx_attempts' + rx_attempts' = tx_attempts + rx_attempts + 1
           /\ accepted' = accepted
           /\ txn' = txn
           /\ delivered' = delivered
    /\ last_answer = "fault" => (pc' = "idle" /\ result' = NoResult)

\* C13: a hard fault on any serial.write of write_register or read_register,
\* or on any serial.read of read_register, ends the operation at once with
\* SerialError: no further transmit or receive attempt, no retry, no
\* validation of the response and no decoded value.
C13_FaultEndsOperation == [](C13_FaultState) /\ [][C13_FaultStep]_vars

\* read_register failed on the fault of its fourth receive, after a
\* would-block
C13_Witness ==
    /\ op = "read_register"
    /\ pc = "done"
    /\ last_answer = "fault"
    /\ Len(txn.resp) = 3
    /\ Len(accepted) = 4
    /\ wb > 0
    /\ result = Err("SerialError")

----------------------------------------------------------------------------
(* Would-block and termination (FairSpec) *)

\* a would-block answer changes nothing the operation can see: it is still
\* in the same loop at the same byte, with the same buffer and no result
C14_WouldBlockStep ==
    last_answer' = "would_block" =>
        /\ pc \in {"send", "recv"}
        /\ result' = NoResult
        /\ UNCHANGED <<slave_address, pc, op, params, stage, txn, locals, result,
                       line, delivered, accepted>>

\* C14: a would-block answer is never returned to the caller and does not
\* end the operation; after it the operation is where it would be without
\* it, so any number of would-blocks followed by an accept continues as if
\* none had occurred, and an operation only ever answered would-block does
\* not return.  On a transport that never faults and eventually accepts each
\* byte, write_register eventually returns Ok(()) with its 8 bytes accepted.
C14_RetriedUntilAccepted ==
    /\ [][C14_WouldBlockStep]_vars
    /\ (op = "write_register" /\ pc = "send") ~>
           (op = "write_register" /\ pc = "done" /\ result = Ok(Unit)
                                  /\ Len(accepted) = 8)

\* write_register returned success after two would-blocks and eight accepts
C14_Witness ==
    /\ op = "write_register"
    /\ pc = "done"
    /\ result = Ok(Unit)
    /\ wb = 2
    /\ tx_attempts = 10
    /\ Len(accepted) = 8

----------------------------------------------------------------------------
(* Phases of a register transaction (Spec) *)

\* C15: a write never reads, and a read receives only after its request is
\* out.  write_register (and the write of set_current) makes no receive
\* attempt and on success has exactly its 8 bytes accepted; read_register
\* makes a receive attempt only once the 4 bytes of its request have been
\* accepted, never has more than 7 successful receives, and whenever it
\* returns otherwise than on a hard fault it has exactly 4 bytes accepted and
\* exactly 7 successful receives.
C15_PhasesInOrder ==
    /\ op \in {"write_register", "set_current"} =>
           /\ rx_attempts = 0
           /\ delivered = <<>>
           /\ pc # "recv"
           /\ (pc = "done" /\ result = Ok(Unit)) =>
                  (Len(accepted) = 8 /\ tx_attempts = 8 + wb)
    /\ op = "read_register" =>
           /\ rx_attempts > 0 =>
                  /\ accepted = build_read_packet(slave_address, params.reg)
                  /\ Len(accepted) = 4
           /\ Len(accepted) < 4 => (rx_attempts = 0 /\ txn.resp = <<>>)
           /\ Len(txn.resp) <= 7
           /\ pc = "recv" => Len(txn.resp) < 7
           /\ (pc = "done" /\ last_answer # "fault") =>
                  /\ Len(accepted) = 4
                  /\ Len(txn.resp) = 7
                  /\ tx_attempts + rx_attempts = 4 + 7 + wb

\* read_register returned from its checks after one would-block while
\* transmitting and one while receiving
C15_Witness ==
    /\ op = "read_register"
    /\ pc = "done"
    /\ last_answer \in {"ok", "eof"}
    /\ Len(accepted) = 4
    /\ Len(txn.resp) = 7
    /\ tx_attempts = 5
    /\ rx_attempts = 8

----------------------------------------------------------------------------
(* The init_uart workflow (Spec) *)

\* the register transactions of init_uart in the order of lines 301-308
InitUartPlan ==
    <<[kind |-> "read", reg |-> REG_IFCNT], [kind |-> "read", reg |-> REG_GCONF],
      [kind |-> "write", reg |-> REG_GCONF], [kind |-> "read", reg |-> REG_IFCNT]>>

\* the bytes of the frames of the transactions before the k-th (counted
\* from 0), the GCONF write carrying w
InitUartWire(k, w) ==
    LET r1 == build_read_packet(slave_address, REG_IFCNT)
        r2 == build_read_packet(slave_address, REG_GCONF)
        w3 == build_write_packet(slave_address, REG_GCONF, w)
    IN CASE k = 0 -> <<>>
         [] k = 1 -> r1
         [] k = 2 -> r1 \o r2
         [] k = 3 -> r1 \o r2 \o w3

C17_PdnDisableSet ==
    fn = "init_uart_new_gconf" =>
        LET g == args.gconf
            bit6 == (g.lo \div 64) % 2
        IN /\ ret.hi = g.hi
           /\ ret.lo = g.lo + (IF bit6 = 1 THEN 0 ELSE 64)
           /\ bit6 = 1 => ret = g

\* the update applied to a value with bits 31, 7, 6 and 0 set
C17_Witness ==
    /\ fn = "init_uart_new_gconf"
    /\ args.gconf = U32(32768, 193)
    /\ ret = U32(32768, 193)

----------------------------------------------------------------------------
(* Bits of the response the validation does not look at (Spec) *)

\* r carries a sync nibble other than 0101 or has bit 7 of its register
\* byte set
NonCanonicalHeader(r) == (r[1] \div 16 # 5) \/ (r[2] >= 128)

\* C18 (as claimed): a delivered response that echoes the request and has a
\* checksum correct for its own bytes passes validation whatever its sync
\* nibble and the top bit of its register byte, and read_register returns
\* the value of its bytes 2..5, the value the response with the canonical
\* header carries.
C18_HeaderBitsIgnored ==
    (ReadReturned /\ EchoesRequest(delivered, slave_address, params.reg)
                  /\ ChecksumOk(delivered)
                  /\ NonCanonicalHeader(delivered)) =>
        LET v == U32(delivered[6] * 256 + delivered[5],
                     delivered[4] * 256 + delivered[3])
        IN /\ result = Ok(v)
           /\ result = read_register_validate(
                            ValidResponse(slave_address, params.reg, v, 5, 0),
                            slave_address, params.reg)

====
